---- MODULE Spec2Model ----
(***************************************************************************)
(* A model of the AI-Rummikub decision engine: the meld validators and the *)
(* joker valuator of RummikubAIHelper, the move generator and the turn     *)
(* protocol of RummikubPlayer, the Random and Greedy strategies, and the   *)
(* AI-vs-AI loop of RummikubGameManager, and the MCTS strategy with its    *)
(* Simulator.                                                              *)
(*                                                                         *)
(* A tile is the triple <<color, number, is_joker>> of the source.  Python *)
(* lists are sequences; Python's 0-based player indices are kept (0, 1).   *)
(* Where the source works on a list in place, the operators give both what *)
(* the call returns and what it leaves in the list.                        *)
(*                                                                         *)
(* Specifications:                                                         *)
(*   Spec       a game: construction, then the loop of ai_VS_ai            *)
(*   SpecHand   a hand is dealt to player 0, then one call of play_turn    *)
(*   SpecValid  one call of is_valid_run and is_valid_group on a list      *)
(*   SpecPerm   the same on a list and on a permutation of it              *)
(*   SpecJoker  determine_joker_value on a meld and on another meld        *)
(*   SpecFull   games of Random and Greedy players played to their end     *)
(*   SpecMCTS   games with an MCTS player, its search and its rollouts     *)
(*   SpecBest   the move selection that ends a search, on a tree of a root *)
(*              and its children                                           *)
(*   SpecReuse  the same, and a second call of AI_logic on the same player *)
(*   SpecMove   one call of get_move on the move that AI_logic returns     *)
(***************************************************************************)
EXTENDS Integers, Sequences, FiniteSets, Bags, TLC

VARIABLES
    \* ---- RummikubGameManager ----
    tile_pool,                \* list of tiles, drawn from its end (pop)
    players_tiles,            \* [0..1 -> list of tiles]
    is_done,                  \* [0..1 -> BOOLEAN]
    board_tiles,              \* list of melds (lists of tiles)
    current_player_idx,       \* 0 or 1
    game_over,                \* BOOLEAN
    players,                  \* [0..1 -> "random" | "greedy"]
    has_made_initial_meld,    \* [0..1 -> BOOLEAN], the flag of players[i]
    \* ---- observation of the loop ----
    turns,                    \* iterations of the ai_VS_ai loop so far
    last,                     \* what the last call of play_turn did (see TurnRecord)
    \* ---- a validator call ----
    vtiles,                   \* the list handed to the validators
    vperm,                    \* a permutation of it; in SpecMove, the move that
                              \* AI_logic returns to get_move
    vres,                     \* the outcomes (see NoCall)
    \* ---- MCTSPlayer ----
    nodes,                    \* the MCTSNode objects of the search tree (see MCTSNode)
    search                    \* where MCTSPlayer.AI_logic stands (see NoSearch)

gameVars == <<tile_pool, players_tiles, is_done, board_tiles, current_player_idx,
              game_over, players, has_made_initial_meld, turns, last>>
valVars  == <<vtiles, vperm, vres>>
mctsVars == <<nodes, search>>
vars     == <<tile_pool, players_tiles, is_done, board_tiles, current_player_idx,
              game_over, players, has_made_initial_meld, turns, last,
              vtiles, vperm, vres, nodes, search>>

-----------------------------------------------------------------------------
(* Bounds of the model *)

\* The deck holds the values LoValue..HiValue of the program's range(1, 14).
LoValue == 8
HiValue == 11
\* Tiles dealt to each player (the program deals 14).
DealSize == 5
\* The shuffles of the pool considered: strides 1..MaxStride, cuts 0..MaxCut.
MaxStride == 9
MaxCut == 3
\* Iterations of the ai_VS_ai loop explored.
MaxTurns == 10
\* The deck of the games that are played to their end (SpecFull) holds the
\* values EndLoValue..HiValue.
EndLoValue == 10
\* Largest hand handed to play_turn in SpecHand before the initial meld, and
\* after it.
MaxHandLen == 6
MaxPlayLen == 4
\* Longest list handed to the validators in SpecValid.
MaxLenV == 5
\* Longest list handed to the validators with a permutation of it in SpecPerm.
MaxLenP == 3
\* The hands of the root in SpecBest hold LoBestHand..HiBestHand tiles, the
\* root has 1..MaxKids children, and a rollout has given a child one of the
\* rewards 0..MaxReward, in half points.
\* In SpecReuse AI_logic is called again after the first MaxAgain final
\* selections.
MaxAgain == 1
\* Largest hand handed to get_move in SpecMove.
MaxLenM == 2
LoBestHand == 4
HiBestHand == 10
MaxKids == 3
MaxReward == 4
\* Longest meld handed to determine_joker_value in SpecJoker.
MaxLenJ == 3

-----------------------------------------------------------------------------
(* Tiles *)

None == 0

\* the points of the initial meld (the literal of find_tiles_for_30_points)
INITIAL_MELD_POINTS == 30

COLORS == <<"green", "blue", "yellow", "red">>

JOKER == <<"joker", None, TRUE>>

Tile(color, number) == <<color, number, FALSE>>

-----------------------------------------------------------------------------
(* Sequence helpers (Python list operations) *)

Range(s) == {s[i] : i \in DOMAIN s}

RECURSIVE SumSeq(_)
SumSeq(s) == IF s = <<>> THEN 0 ELSE Head(s) + SumSeq(Tail(s))

RECURSIVE Flatten(_)
Flatten(ss) == IF ss = <<>> THEN <<>> ELSE Head(ss) \o Flatten(Tail(ss))

Reverse(s) == [i \in 1..Len(s) |-> s[Len(s) + 1 - i]]

\* list.remove(x): drops the first occurrence of x (x must be present)
RemoveFirst(s, x) ==
    LET i == CHOOSE j \in DOMAIN s : s[j] = x /\ \A k \in 1..(j - 1) : s[k] # x
    IN  SubSeq(s, 1, i - 1) \o SubSeq(s, i + 1, Len(s))

RECURSIVE RemoveAll(_, _)
RemoveAll(s, xs) ==
    IF xs = <<>> THEN s ELSE RemoveAll(RemoveFirst(s, Head(xs)), Tail(xs))

\* sorted(pairs, key = first component): Python's sort is stable
RECURSIVE InsertByKey(_, _)
InsertByKey(sorted, p) ==
    IF sorted = <<>> THEN <<p>>
    ELSE IF p[1] < Head(sorted)[1] THEN <<p>> \o sorted
    ELSE <<Head(sorted)>> \o InsertByKey(Tail(sorted), p)

RECURSIVE SortPairs(_)
SortPairs(ps) ==
    IF ps = <<>> THEN <<>>
    ELSE InsertByKey(SortPairs(SubSeq(ps, 1, Len(ps) - 1)), ps[Len(ps)])

Seconds(ps) == [i \in DOMAIN ps |-> ps[i][2]]

\* the tiles of a list as a multiset
BagOf(s) == [x \in Range(s) |-> Cardinality({i \in DOMAIN s : s[i] = x})]

-----------------------------------------------------------------------------
(* RummikubAIHelper: the meld validators *)

NonPurple(tiles) == SelectSeq(tiles, LAMBDA t : t[1] # "purple")
Numbered(tiles)  == SelectSeq(tiles, LAMBDA t : t[2] # None)
numbers_of(tiles) == [i \in DOMAIN Numbered(tiles) |-> Numbered(tiles)[i][2]]
purple_count(tiles) == Len(SelectSeq(tiles, LAMBDA t : t[1] = "purple"))

\* the loop of is_valid_run over numbers[i..], with the expected number and
\* the jokers left
RECURSIVE run_walk(_, _, _, _)
run_walk(numbers, i, expected_number, jokers) ==
    IF i > Len(numbers) THEN TRUE
    ELSE IF numbers[i] # expected_number
         THEN IF jokers > 0
              THEN run_walk(numbers, i + 1, expected_number + 1, jokers - 1)
              ELSE FALSE
         ELSE run_walk(numbers, i + 1, expected_number + 1, jokers)

\* is_valid_run without its length check
MutRunNoLengthCheck(tiles) ==
    LET colors  == {t[1] : t \in Range(NonPurple(tiles))}
        numbers == numbers_of(tiles)
        jokers  == purple_count(tiles)
    IN  IF Cardinality(colors) > 1 THEN "False"
        ELSE IF numbers = <<>> THEN "IndexError"
        ELSE IF run_walk(numbers, 1, numbers[1], jokers) THEN "True" ELSE "False"

\* is_valid_run's outcome: "True", "False", or the exception raised by
\* numbers[0] on an empty list
is_valid_run_outcome(tiles) ==
    LET colors  == {t[1] : t \in Range(NonPurple(tiles))}
        numbers == numbers_of(tiles)
        jokers  == purple_count(tiles)
    IN  IF Cardinality(colors) > 1 THEN "False"
        ELSE IF Len(numbers) + jokers < 3 THEN "False"
        ELSE IF numbers = <<>> THEN "IndexError"
        ELSE IF run_walk(numbers, 1, numbers[1], jokers) THEN "True" ELSE "False"

is_valid_run(tiles) == is_valid_run_outcome(tiles) = "True"

is_valid_group_outcome(tiles) ==
    LET numbers == {t[2] : t \in Range(tiles)}
        colors  == {t[1] : t \in Range(NonPurple(tiles))}
    IN  IF Len(tiles) < 3 THEN "False"
        ELSE IF Cardinality(numbers) # 1
                \/ Cardinality(colors) # Len(tiles) - purple_count(tiles)
             THEN "False"
        ELSE "True"

is_valid_group(tiles) == is_valid_group_outcome(tiles) = "True"

-----------------------------------------------------------------------------
(* RummikubAIHelper: points and the initial-meld search *)

Max(a, b) == IF a > b THEN a ELSE b

\* the distinct elements of a list, in the order of their first occurrence
\* (the keys of a dict filled in list order)
RECURSIVE Dedup(_)
Dedup(s) ==
    IF s = <<>> THEN <<>>
    ELSE LET front == Dedup(SubSeq(s, 1, Len(s) - 1))
             x == s[Len(s)]
         IN  IF x \in Range(front) THEN front ELSE Append(front, x)

\* sorted(tiles, key = Key): stable
SortTilesBy(tiles, Key(_)) ==
    Seconds(SortPairs([i \in DOMAIN tiles |-> <<Key(tiles[i]), tiles[i]>>]))

sorted_numbers(tiles) ==
    LET ns == numbers_of(tiles)
    IN  Seconds(SortPairs([i \in DOMAIN ns |-> <<ns[i], ns[i]>>]))

\* determine_joker_value raises IndexError (numbers[0] of an empty list)
determine_joker_value_raises(tiles) ==
    Len(tiles) # 1 /\ numbers_of(tiles) = <<>>

\* the first gap larger than 1 in the sorted numbers, or 0 when there is none
first_gap(numbers) ==
    LET gaps == {i \in 1..(Len(numbers) - 1) : numbers[i + 1] - numbers[i] > 1}
    IN  IF gaps = {} THEN 0 ELSE CHOOSE i \in gaps : \A k \in gaps : i <= k

determine_joker_value(tiles) ==
    LET numbers == sorted_numbers(tiles)
    IN  IF Len(tiles) = 1 THEN 0
        ELSE IF Cardinality(Range(numbers)) = 1 THEN numbers_of(tiles)[1]
        ELSE IF first_gap(numbers) # 0 THEN numbers[first_gap(numbers)] + 1
        ELSE IF tiles[1][3] THEN numbers[1] - 1
        ELSE numbers[Len(numbers)] + 1

calculate_points(tiles) ==
    LET joker_value == determine_joker_value(tiles)
    IN  SumSeq([i \in DOMAIN tiles |->
                   IF ~tiles[i][3] THEN tiles[i][2] ELSE joker_value])

\* itertools.combinations(s, 3), in its order
combinations3(s) ==
    LET n == Len(s)
    IN  Flatten([i \in 1..n |->
          Flatten([j \in 1..n |->
            IF j > i THEN [k \in 1..(n - j) |-> <<s[i], s[j], s[j + k]>>]
                     ELSE <<>>])])

colors_of(tiles) == {t[1] : t \in Range(tiles)}

find_valid_groups(same_number_tiles) ==
    IF Len(same_number_tiles) >= 3
    THEN SelectSeq(combinations3(same_number_tiles),
                   LAMBDA combo : Cardinality(colors_of(combo)) = 3)
         \o (IF Len(same_number_tiles) = 4
                /\ Cardinality(colors_of(same_number_tiles)) = 4
             THEN <<same_number_tiles>> ELSE <<>>)
    ELSE <<>>

consecutive(run) == \A k \in 2..Len(run) : run[k][2] = run[k - 1][2] + 1

find_valid_runs_of(same_color_tiles) ==
    LET n == Len(same_color_tiles)
    IN  Flatten([i \in 1..n |->
          SelectSeq([d \in 1..Max(0, n - i - 1) |->
                        SubSeq(same_color_tiles, i, i + 1 + d)],
                    consecutive)])

find_valid_runs(tiles) ==
    Flatten([c \in DOMAIN COLORS |->
        find_valid_runs_of(
            SortTilesBy(SelectSeq(tiles, LAMBDA t : t[1] = COLORS[c]),
                        LAMBDA t : t[2]))])

find_valid_sets(player_tiles) ==
    LET tiles == Numbered(player_tiles)
    IN  Flatten([number \in 1..13 |->
            find_valid_groups(SelectSeq(tiles, LAMBDA t : t[2] = number))])
        \o find_valid_runs(tiles)

\* the loop of find_tiles_for_30_points over valid_sets[i..]
RECURSIVE pack_sets(_, _, _, _, _)
pack_sets(valid_sets, i, used_tiles, result_sets, total_points) ==
    IF i > Len(valid_sets) \/ total_points >= INITIAL_MELD_POINTS
    THEN [result_sets |-> result_sets, total_points |-> total_points]
    ELSE IF used_tiles \cap Range(valid_sets[i]) = {}
         THEN pack_sets(valid_sets, i + 1, used_tiles \cup Range(valid_sets[i]),
                        Append(result_sets, valid_sets[i]),
                        total_points + calculate_points(valid_sets[i]))
         ELSE pack_sets(valid_sets, i + 1, used_tiles, result_sets, total_points)

\* find_tiles_for_30_points returning whatever it packed, the total ignored
MutFindTilesNoThreshold(player_tiles) ==
    LET valid_sets == SortTilesBy(find_valid_sets(player_tiles),
                                  LAMBDA x : 0 - calculate_points(x))
    IN  pack_sets(valid_sets, 1, {}, <<>>, 0).result_sets

\* find_tiles_for_30_points; None is modelled by the empty list (the list
\* returned is never empty)
find_tiles_for_30_points(player_tiles) ==
    LET valid_sets == SortTilesBy(find_valid_sets(player_tiles),
                                  LAMBDA x : 0 - calculate_points(x))
        packed == pack_sets(valid_sets, 1, {}, <<>>, 0)
    IN  IF packed.total_points >= INITIAL_MELD_POINTS
        THEN packed.result_sets ELSE <<>>

-----------------------------------------------------------------------------
(* RummikubPlayer: the move generator *)

\* the loop of generate_runs over sorted_tiles[i..]: the runs saved so far
\* and the run being built
RECURSIVE build_runs(_, _, _, _)
build_runs(sorted_tiles, i, runs, run) ==
    IF i > Len(sorted_tiles)
    THEN IF Len(run) >= 3 THEN Append(runs, run) ELSE runs
    ELSE LET tile == sorted_tiles[i]
         IN  IF run = <<>>
                \/ tile[2] = None
                \/ run[Len(run)][2] = None
                \/ tile[2] = run[Len(run)][2] + 1
             THEN build_runs(sorted_tiles, i + 1, runs, Append(run, tile))
             ELSE build_runs(sorted_tiles, i + 1,
                             IF Len(run) >= 3 THEN Append(runs, run) ELSE runs,
                             <<tile>>)

\* generate_runs over the dict grouped_by_color of the hand
generate_runs(player_tiles) ==
    LET keys == Dedup([i \in DOMAIN player_tiles |-> player_tiles[i][1]])
    IN  Flatten([c \in DOMAIN keys |->
          build_runs(
              SortTilesBy(SelectSeq(player_tiles, LAMBDA t : t[1] = keys[c]),
                          LAMBDA t : IF t[2] # None THEN t[2] ELSE 100),
              1, <<>>, <<>>)])

\* the first tile of each color of a list, in list order
RECURSIVE unique_by_color(_)
unique_by_color(tiles) ==
    IF tiles = <<>> THEN <<>>
    ELSE LET front == unique_by_color(SubSeq(tiles, 1, Len(tiles) - 1))
             tile == tiles[Len(tiles)]
         IN  IF tile[1] \in colors_of(front) THEN front ELSE Append(front, tile)

\* generate_groups over the dict grouped_by_value of the hand
generate_groups(player_tiles) ==
    LET keys == Dedup([i \in DOMAIN player_tiles |-> player_tiles[i][2]])
        unique_tiles(k) ==
            unique_by_color(SelectSeq(player_tiles, LAMBDA t : t[2] = keys[k]))
    IN  Flatten([k \in DOMAIN keys |->
          IF Len(unique_tiles(k)) >= 3 THEN <<unique_tiles(k)>> ELSE <<>>])

\* [t for t in tiles if t != tile]
without_tile(tiles, tile) == SelectSeq(tiles, LAMBDA t : t # tile)

\* [tile for tile in tiles if tile not in group]
without_group(tiles, group) == SelectSeq(tiles, LAMBDA t : t \notin Range(group))

replace_group(board, i, new_group) ==
    SubSeq(board, 1, i - 1) \o <<new_group>> \o SubSeq(board, i + 1, Len(board))

\* the candidates of get_all_moves_from_board without the validity test
MutBoardCandidatesUnchecked(board, player_tiles) ==
    Flatten([i \in DOMAIN board |->
      Flatten([k \in DOMAIN player_tiles |->
        << <<replace_group(board, i, <<player_tiles[k]>> \o board[i]),
             without_tile(player_tiles, player_tiles[k])>>,
           <<replace_group(board, i, Append(board[i], player_tiles[k])),
             without_tile(player_tiles, player_tiles[k])>> >>])])

\* the candidates of get_all_moves_from_board in loop order, before the
\* visited_states filter: group i, hand tile k, front then back
board_candidates(board, player_tiles) ==
    Flatten([i \in DOMAIN board |->
      Flatten([k \in DOMAIN player_tiles |->
        LET tile  == player_tiles[k]
            front == <<tile>> \o board[i]
            back  == Append(board[i], tile)
            cand(new_group) ==
                IF is_valid_group(new_group) \/ is_valid_run(new_group)
                THEN << <<replace_group(board, i, new_group),
                          without_tile(player_tiles, tile)>> >>
                ELSE <<>>
        IN  cand(front) \o cand(back)])])

\* a move is <<board, hand>>
get_all_moves_from_board(board, player_tiles) ==
    Dedup(board_candidates(board, player_tiles))

get_all_moves(board, player_tiles) ==
    LET player_moves == generate_runs(player_tiles) \o generate_groups(player_tiles)
    IN  get_all_moves_from_board(board, player_tiles)
        \o [m \in DOMAIN player_moves |->
               <<Append(board, player_moves[m]),
                 without_group(player_tiles, player_moves[m])>>]

-----------------------------------------------------------------------------
(* RummikubGreedyAI *)

\* the tile sum of AI_logic's inner loop: jokers are skipped
group_sum(group) ==
    SumSeq([i \in DOMAIN group |-> IF group[i][2] # None THEN group[i][2] ELSE 0])

\* every (move, group) pair in the order AI_logic visits them
greedy_pairs(moves) ==
    Flatten([m \in DOMAIN moves |->
        [g \in DOMAIN moves[m][1] |-> <<m, moves[m][1][g]>>]])

\* the loop of AI_logic comparing the sums first and the lengths among equal
\* sums
RECURSIVE MutGreedyScanSumFirst(_, _, _, _, _)
MutGreedyScanSumFirst(pairs, i, best, max_group_length, max_tile_sum) ==
    IF i > Len(pairs) THEN best
    ELSE LET group == pairs[i][2]
         IN  IF group_sum(group) > max_tile_sum
                \/ (group_sum(group) = max_tile_sum /\ Len(group) > max_group_length)
             THEN MutGreedyScanSumFirst(pairs, i + 1, pairs[i], Len(group),
                                        group_sum(group))
             ELSE MutGreedyScanSumFirst(pairs, i + 1, best, max_group_length,
                                        max_tile_sum)

\* the loop of AI_logic over pairs[i..], keeping the first pair with the
\* largest (length, sum)
RECURSIVE greedy_scan(_, _, _, _, _)
greedy_scan(pairs, i, best, max_group_length, max_tile_sum) ==
    IF i > Len(pairs) THEN best
    ELSE LET group == pairs[i][2]
         IN  IF Len(group) > max_group_length
                \/ (Len(group) = max_group_length /\ group_sum(group) > max_tile_sum)
             THEN greedy_scan(pairs, i + 1, pairs[i], Len(group), group_sum(group))
             ELSE greedy_scan(pairs, i + 1, best, max_group_length, max_tile_sum)

\* RummikubGreedyAI.AI_logic: the set of its results (one); no move is the
\* empty list the source returns, [found |-> FALSE]
NoMove == [found |-> FALSE, board |-> <<>>, hand |-> <<>>]

greedy_AI_logic(board, player_tiles) ==
    LET moves == get_all_moves(board, player_tiles)
        best  == greedy_scan(greedy_pairs(moves), 1, <<>>, -1, -1)
    IN  IF Len(moves) = 0 THEN NoMove
        ELSE [found |-> TRUE, board |-> << best[2] >>, hand |-> moves[best[1]][2]]

-----------------------------------------------------------------------------
(* RummikubRandomAI *)

PlayerKinds == {"random", "greedy"}

MIN_TILES == 3
MAX_RANDOM_TILES_LENGTH == 6

\* random.shuffle(player_tiles) leaves the hand in an order the caller does
\* not control; the model considers the order kept and the order reversed
shuffle_outcomes(player_tiles) == {player_tiles, Reverse(player_tiles)}

\* the sizes select_random_tiles may pick: min(randint(MIN_TILES,
\* MAX_RANDOM_TILES_LENGTH), len(player_tiles))
sample_sizes(player_tiles) ==
    {IF r < Len(player_tiles) THEN r ELSE Len(player_tiles) :
        r \in MIN_TILES..MAX_RANDOM_TILES_LENGTH}

\* the positions random.sample may pick
samples(player_tiles) ==
    {S \in SUBSET DOMAIN player_tiles : Cardinality(S) \in sample_sizes(player_tiles)}

\* the tiles at the positions S, in position order
tiles_at(player_tiles, S) ==
    [n \in 1..Cardinality(S) |->
        player_tiles[CHOOSE k \in S : Cardinality({j \in S : j <= k}) = n]]

\* the sample at the positions S sorted by the key of generate_random_move
\* (the value, 0 for a joker), equal keys in position order
sample_tiles(player_tiles, S) ==
    SortTilesBy(tiles_at(player_tiles, S),
                LAMBDA t : IF t[2] # None THEN t[2] ELSE 0)

is_valid_meld(tiles) == is_valid_group(tiles) \/ is_valid_run(tiles)

\* the orders the stable sort can leave a sample in: the sample comes in a
\* random order, so tiles of equal value come out in any order.  The tiles of
\* a valid group are distinct and all of one value: every order of them is a
\* candidate.  (A sample with two tiles of one value and a third value is no run
\* and no group in any order; a sample of distinct values has one order.)
candidate_orders(tiles) ==
    IF is_valid_group(tiles)
    THEN {p \in [DOMAIN tiles -> Range(tiles)] : Range(p) = Range(tiles)}
    ELSE {tiles}

\* the valid candidates an attempt of generate_random_move can hit
valid_candidates(player_tiles) ==
    UNION {candidate_orders(sample_tiles(player_tiles, S)) :
             S \in {X \in samples(player_tiles) :
                      is_valid_meld(sample_tiles(player_tiles, X))}}

\* some attempt can fail, so every attempt can, and the move is None
attempts_can_fail(player_tiles) ==
    \E S \in samples(player_tiles) : ~is_valid_meld(sample_tiles(player_tiles, S))

\* RummikubRandomAI.AI_logic: the set of its results, each with the hand the
\* call leaves behind (it shuffles the hand and removes the move's tiles in
\* place)
random_AI_logic(board, player_tiles) ==
    {[found |-> TRUE, board |-> <<c>>, hand |-> RemoveAll(h, c),
      hand_ip |-> RemoveAll(h, c)] :
        c \in valid_candidates(player_tiles), h \in shuffle_outcomes(player_tiles)}
    \cup
    {[found |-> FALSE, board |-> <<>>, hand |-> <<>>, hand_ip |-> h] :
        h \in IF attempts_can_fail(player_tiles)
              THEN shuffle_outcomes(player_tiles) ELSE {}}

-----------------------------------------------------------------------------
(* RummikubPlayer: the turn protocol *)

\* self.AI_logic of the player's class
AI_logic(kind, board, player_tiles) ==
    IF kind = "greedy"
    THEN {[found |-> r.found, board |-> r.board, hand |-> r.hand,
           hand_ip |-> player_tiles] : r \in {greedy_AI_logic(board, player_tiles)}}
    ELSE random_AI_logic(board, player_tiles)

\* get_move: (success, new board, new hand), and the hand list after the call.
\* AI_logic returns an empty list or a (board, hand) tuple, never a list of
\* one element, so the branch that handles one is not taken.
get_move(kind, board, player_tiles) ==
    {IF ~r.found
     THEN [success |-> FALSE, board |-> board, hand |-> r.hand_ip, hand_ip |-> r.hand_ip]
     ELSE [success |-> TRUE, board |-> r.board, hand |-> r.hand, hand_ip |-> r.hand_ip] :
        r \in AI_logic(kind, board, player_tiles)}

\* The moves that the AI_logic of a subclass can hand to get_move: None or an
\* empty list, a list of one tile, and a (board, hand) tuple.
EmptyMove == [shape |-> "none"]
ListMove(tile) == [shape |-> "list", tile |-> tile]
TupleMove(board, hand) == [shape |-> "tuple", board |-> board, hand |-> hand]

\* the body of get_move after "move = self.AI_logic(board_tiles,
\* player_tiles)": whether it raises ValueError, what it returns, and what the
\* call leaves in the two lists it was handed.  The list of one tile is
\* appended to the board before the tile is looked up in the hand;
\* player_tiles.remove raises ValueError for a joker that the hand has not.
get_move_with(move, board, player_tiles) ==
    IF move.shape = "none"
    THEN [raises |-> FALSE, success |-> FALSE, board |-> board, hand |-> player_tiles,
          board_ip |-> board, hand_ip |-> player_tiles]
    ELSE IF move.shape = "list"
    THEN LET appended == Append(board, <<move.tile>>)
             in_hand  == move.tile \in Range(player_tiles)
             joker    == move.tile[1] = "joker"
             removed  == IF in_hand THEN RemoveFirst(player_tiles, move.tile)
                         ELSE RemoveFirst(player_tiles, JOKER)
             raises   == ~in_hand /\ (~joker \/ JOKER \notin Range(player_tiles))
         IN  IF raises
             THEN [raises |-> TRUE, success |-> FALSE, board |-> <<>>, hand |-> <<>>,
                   board_ip |-> appended, hand_ip |-> player_tiles]
             ELSE [raises |-> FALSE, success |-> TRUE, board |-> appended, hand |-> removed,
                   board_ip |-> appended, hand_ip |-> removed]
    ELSE [raises |-> FALSE, success |-> TRUE, board |-> move.board, hand |-> move.hand,
          board_ip |-> board, hand_ip |-> player_tiles]

\* play_turn without the initial-meld gate: get_move whatever the flag
MutPlayTurnNoGate(kind, flag, board, player_tiles) ==
    IF player_tiles = <<>>
    THEN {[found |-> FALSE, move_board |-> <<>>, move_hand |-> <<>>,
           board_ip |-> board, hand_ip |-> player_tiles, flag |-> flag]}
    ELSE {IF m.success
          THEN [found |-> TRUE, move_board |-> m.board, move_hand |-> m.hand,
                board_ip |-> board, hand_ip |-> m.hand_ip, flag |-> flag]
          ELSE [found |-> FALSE, move_board |-> <<>>, move_hand |-> <<>>,
                board_ip |-> board, hand_ip |-> m.hand_ip, flag |-> flag] :
             m \in get_move(kind, board, player_tiles)}

\* play_turn raising on an empty hand instead of returning None: no outcome
MutPlayTurnRaises(kind, flag, board, player_tiles) ==
    LET none(b, h, f) ==
            [found |-> FALSE, move_board |-> <<>>, move_hand |-> <<>>,
             board_ip |-> b, hand_ip |-> h, flag |-> f]
        initial_meld == find_tiles_for_30_points(player_tiles)
    IN  IF player_tiles = <<>> THEN {}
        ELSE IF ~flag
        THEN IF initial_meld # <<>>
             THEN LET b == board \o initial_meld
                      h == RemoveAll(player_tiles, initial_meld[1])
                  IN  {[found |-> TRUE, move_board |-> b, move_hand |-> h,
                        board_ip |-> b, hand_ip |-> h, flag |-> TRUE]}
             ELSE {none(board, player_tiles, flag)}
        ELSE {IF m.success
              THEN [found |-> TRUE, move_board |-> m.board, move_hand |-> m.hand,
                    board_ip |-> board, hand_ip |-> m.hand_ip, flag |-> flag]
              ELSE none(board, m.hand_ip, flag) :
                 m \in get_move(kind, board, player_tiles)}

\* play_turn: the set of its outcomes.  Each gives the move returned (found
\* FALSE for None), and what the call left in the two lists it was handed and
\* in the flag.
play_turn(kind, flag, board, player_tiles) ==
    LET none(b, h, f) ==
            [found |-> FALSE, move_board |-> <<>>, move_hand |-> <<>>,
             board_ip |-> b, hand_ip |-> h, flag |-> f]
        initial_meld == find_tiles_for_30_points(player_tiles)
    IN  IF player_tiles = <<>> THEN {none(board, player_tiles, flag)}
        ELSE IF ~flag
        THEN IF initial_meld # <<>>
             THEN LET b == board \o initial_meld
                      h == RemoveAll(player_tiles, initial_meld[1])
                  IN  {[found |-> TRUE, move_board |-> b, move_hand |-> h,
                        board_ip |-> b, hand_ip |-> h, flag |-> TRUE]}
             ELSE {none(board, player_tiles, flag)}
        ELSE {IF m.success
              THEN [found |-> TRUE, move_board |-> m.board, move_hand |-> m.hand,
                    board_ip |-> board, hand_ip |-> m.hand_ip, flag |-> flag]
              ELSE none(board, m.hand_ip, flag) :
                 m \in get_move(kind, board, player_tiles)}

-----------------------------------------------------------------------------
(* RummikubGameManager.create_tile_pool: the deck before the shuffle *)

Values == LoValue..HiValue

RECURSIVE TwoOfEach(_)
TwoOfEach(ts) ==
    IF ts = <<>> THEN <<>> ELSE <<Head(ts), Head(ts)>> \o TwoOfEach(Tail(ts))

ColorTiles(color) == [k \in 1..(HiValue - LoValue + 1) |-> Tile(color, LoValue + k - 1)]

create_tile_pool_unshuffled ==
    Flatten([c \in DOMAIN COLORS |-> TwoOfEach(ColorTiles(COLORS[c]))])
        \o <<JOKER, JOKER>>

DeckSize == Len(create_tile_pool_unshuffled)

DeckKinds == Range(create_tile_pool_unshuffled)

DeckBag == BagOf(create_tile_pool_unshuffled)

\* a list of tiles that can be drawn from the deck
DrawnFromDeck(tiles) ==
    \A t \in Range(tiles) : t \in DeckKinds /\ BagOf(tiles)[t] <= DeckBag[t]

-----------------------------------------------------------------------------
(* RummikubGameManager: construction and the ai_VS_ai loop *)

RECURSIVE GCD(_, _)
GCD(a, b) == IF b = 0 THEN a ELSE GCD(b, a % b)

\* random.shuffle(tiles) in create_tile_pool: the model considers the deck
\* taken every stride-th tile (a stride prime to the deck size) from a cut
shuffled(stride, cut) ==
    [j \in 1..DeckSize |->
        create_tile_pool_unshuffled[((stride * (j - 1) + cut) % DeckSize) + 1]]

Strides == {a \in 1..MaxStride : GCD(a, DeckSize) = 1}

\* no call of play_turn seen yet
NoTurn == <<>>

\* what a call of play_turn by player idx did: the state it was called in
\* (board0, hand0, flag0, pool0, other0), the move it returned, what it left in
\* the lists it was handed and in the flag (board_ip, hand_ip, flag1), and the
\* branch the loop took after it ("call" when the call stands alone)
TurnRecord(idx, r, branch) ==
    [idx |-> idx, kind |-> players[idx],
     board0 |-> board_tiles, hand0 |-> players_tiles[idx],
     flag0 |-> has_made_initial_meld[idx], pool0 |-> tile_pool,
     other0 |-> players_tiles[1 - idx],
     found |-> r.found, move_board |-> r.move_board, move_hand |-> r.move_hand,
     board_ip |-> r.board_ip, hand_ip |-> r.hand_ip, flag1 |-> r.flag,
     branch |-> branch]

\* draw_tile n times for one player: the pool's last n tiles, last first
draw_n(pool, n) == [k \in 1..n |-> pool[Len(pool) + 1 - k]]

\* the state after RummikubGameManager(None, None, inputs): pool created and
\* shuffled, DealSize tiles dealt to player 0, then to player 1, players built
InitGame ==
    \E stride \in Strides, cut \in 0..MaxCut, p0 \in PlayerKinds, p1 \in PlayerKinds :
        LET pool == shuffled(stride, cut)
        IN  /\ tile_pool = SubSeq(pool, 1, DeckSize - 2 * DealSize)
            /\ players_tiles =
                 [i \in 0..1 |->
                    IF i = 0 THEN draw_n(pool, DealSize)
                    ELSE draw_n(SubSeq(pool, 1, DeckSize - DealSize), DealSize)]
            /\ is_done = [i \in 0..1 |-> FALSE]
            /\ board_tiles = <<>>
            /\ current_player_idx = 0
            /\ game_over = FALSE
            /\ players = [i \in 0..1 |-> IF i = 0 THEN p0 ELSE p1]
            /\ has_made_initial_meld = [i \in 0..1 |-> FALSE]
            /\ turns = 0
            /\ last = NoTurn

NoCall == [called |-> FALSE, run |-> "", group |-> "", prun |-> "", pgroup |-> ""]

InitValIdle ==
    /\ vtiles = <<>>
    /\ vperm = <<>>
    /\ vres = NoCall

\* no search in progress and none made yet: the loop of ai_VS_ai is at the
\* top of an iteration, and self.root_node of every MCTSPlayer is None
NoSearch == [pc |-> "loop"]

InitSearchIdle ==
    /\ nodes = <<>>
    /\ search = NoSearch

Init == InitGame /\ InitValIdle /\ InitSearchIdle

\* the loop iteration with a draw that takes the tile from the pool and
\* does not put it in the hand
MutTurnDrawLost(r) ==
    LET idx  == current_player_idx
        draw == ~r.found \/ Len(r.move_hand) = Len(r.hand_ip)
        branch == IF ~draw THEN "apply"
                  ELSE IF tile_pool # <<>> THEN "draw" ELSE "done"
        pool1 == IF branch = "draw" THEN SubSeq(tile_pool, 1, Len(tile_pool) - 1)
                 ELSE tile_pool
        hand1 == IF branch = "apply" THEN r.move_hand ELSE r.hand_ip
        board1 == IF branch = "apply" THEN r.move_board ELSE r.board_ip
        done1 == IF branch = "done" THEN [is_done EXCEPT ![idx] = TRUE] ELSE is_done
    IN  /\ tile_pool' = pool1
        /\ players_tiles' = [players_tiles EXCEPT ![idx] = hand1]
        /\ board_tiles' = board1
        /\ is_done' = done1
        /\ has_made_initial_meld' = [has_made_initial_meld EXCEPT ![idx] = r.flag]
        /\ game_over' = (\A i \in 0..1 : done1[i])
        /\ current_player_idx' = (idx + 1) % 2
        /\ turns' = turns + 1
        /\ last' = TurnRecord(idx, r, branch)
        /\ UNCHANGED <<players>>

\* one iteration of the loop of ai_VS_ai, with r the outcome of play_turn
TurnWith(r) ==
    LET idx  == current_player_idx
        draw == ~r.found \/ Len(r.move_hand) = Len(r.hand_ip)
        branch == IF ~draw THEN "apply"
                  ELSE IF tile_pool # <<>> THEN "draw" ELSE "done"
        \* draw_tile, or apply_move
        pool1 == IF branch = "draw" THEN SubSeq(tile_pool, 1, Len(tile_pool) - 1)
                 ELSE tile_pool
        hand1 == IF branch = "draw" THEN Append(r.hand_ip, tile_pool[Len(tile_pool)])
                 ELSE IF branch = "apply" THEN r.move_hand
                 ELSE r.hand_ip
        board1 == IF branch = "apply" THEN r.move_board ELSE r.board_ip
        done1 == IF branch = "done" THEN [is_done EXCEPT ![idx] = TRUE] ELSE is_done
    IN  /\ tile_pool' = pool1
        /\ players_tiles' = [players_tiles EXCEPT ![idx] = hand1]
        /\ board_tiles' = board1
        /\ is_done' = done1
        /\ has_made_initial_meld' = [has_made_initial_meld EXCEPT ![idx] = r.flag]
        \* _check_all_players_done
        /\ game_over' = (\A i \in 0..1 : done1[i])
        /\ current_player_idx' = (idx + 1) % 2
        /\ turns' = turns + 1
        /\ last' = TurnRecord(idx, r, branch)
        /\ UNCHANGED <<players>>

Turn ==
    /\ ~game_over
    /\ turns < MaxTurns
    /\ \E r \in play_turn(players[current_player_idx],
                          has_made_initial_meld[current_player_idx],
                          board_tiles, players_tiles[current_player_idx]) :
          TurnWith(r)
    /\ UNCHANGED valVars
    /\ UNCHANGED mctsVars

Next == Turn

Spec == Init /\ [][Next]_vars

-----------------------------------------------------------------------------
(* Games played to their end: SpecFull *)

\* create_tile_pool before the shuffle, for the values lo..HiValue
create_tile_pool_from(lo) ==
    Flatten([c \in DOMAIN COLORS |->
        TwoOfEach([k \in 1..(HiValue - lo + 1) |-> Tile(COLORS[c], lo + k - 1)])])
        \o <<JOKER, JOKER>>

EndDeck == create_tile_pool_from(EndLoValue)

EndDeckSize == Len(EndDeck)

\* random.shuffle(tiles) on the deck of SpecFull: strides and cuts as in
\* shuffled
end_shuffled(stride, cut) ==
    [j \in 1..EndDeckSize |-> EndDeck[((stride * (j - 1) + cut) % EndDeckSize) + 1]]

EndStrides == {a \in 1..MaxStride : GCD(a, EndDeckSize) = 1}

\* the state after RummikubGameManager(None, None, inputs), as InitGame
InitGameFull ==
    \E stride \in EndStrides, cut \in 0..MaxCut, p0 \in PlayerKinds, p1 \in PlayerKinds :
        LET pool == end_shuffled(stride, cut)
        IN  /\ tile_pool = SubSeq(pool, 1, EndDeckSize - 2 * DealSize)
            /\ players_tiles =
                 [i \in 0..1 |->
                    IF i = 0 THEN draw_n(pool, DealSize)
                    ELSE draw_n(SubSeq(pool, 1, EndDeckSize - DealSize), DealSize)]
            /\ is_done = [i \in 0..1 |-> FALSE]
            /\ board_tiles = <<>>
            /\ current_player_idx = 0
            /\ game_over = FALSE
            /\ players = [i \in 0..1 |-> IF i = 0 THEN p0 ELSE p1]
            /\ has_made_initial_meld = [i \in 0..1 |-> FALSE]
            /\ turns = 0
            /\ last = NoTurn

InitFull == InitGameFull /\ InitValIdle /\ InitSearchIdle

\* one iteration of the loop of ai_VS_ai, as Turn, the game followed to its end
TurnFull ==
    /\ ~game_over
    /\ \E r \in play_turn(players[current_player_idx],
                          has_made_initial_meld[current_player_idx],
                          board_tiles, players_tiles[current_player_idx]) :
          TurnWith(r)
    /\ UNCHANGED valVars
    /\ UNCHANGED mctsVars

NextFull == TurnFull

\* the loop "while not self.game_over" goes on while the game is not over:
\* one more iteration is counted
LoopGoesOn ==
    /\ ~game_over
    /\ turns' = turns + 1

SpecFull == InitFull /\ [][NextFull]_vars /\ WF_turns(LoopGoesOn)

-----------------------------------------------------------------------------
(* RummikubAIHelper: the potential melds that prune_move counts *)

\* the lists of the tiles with one number, the numbers in the order of their
\* first tile (the jokers are the tiles of the number None)
group_tiles_by_number(tiles) ==
    LET keys == Dedup([i \in DOMAIN tiles |-> tiles[i][2]])
    IN  [k \in DOMAIN keys |-> SelectSeq(tiles, LAMBDA t : t[2] = keys[k])]

\* the lists of the tiles with one colour, the colours in the order of their
\* first tile
group_tiles_by_color(tiles) ==
    LET keys == Dedup([i \in DOMAIN tiles |-> tiles[i][1]])
    IN  [k \in DOMAIN keys |-> SelectSeq(tiles, LAMBDA t : t[1] = keys[k])]

get_potential_groups(tiles) ==
    LET grouped_by_value == group_tiles_by_number(tiles)
        joker == SelectSeq(tiles, LAMBDA t : t[1] = "joker")
    IN  Flatten([k \in DOMAIN grouped_by_value |->
            LET group == grouped_by_value[k]
            IN  IF Len(group) >= 3 THEN <<group>>
                ELSE IF Len(group) = 2 /\ joker # <<>> THEN <<group \o <<joker[1]>>>>
                ELSE <<>>])

\* every window of three tiles of the sorted numbered tiles of a colour that
\* is a valid run; the loop that extends runs shorter than three with the
\* jokers finds none, every window having three tiles
get_potential_runs(tiles) ==
    LET grouped_by_color == group_tiles_by_color(tiles)
    IN  Flatten([c \in DOMAIN grouped_by_color |->
            LET run_tiles == SortTilesBy(Numbered(grouped_by_color[c]), LAMBDA t : t[2])
                windows == [i \in 1..Max(Len(run_tiles) - 2, 0) |->
                               SubSeq(run_tiles, i, i + 2)]
            IN  SelectSeq(windows, is_valid_run)])

-----------------------------------------------------------------------------
(* RummikubMCTSAI: MCTSNode *)

NUM_SIMULATIONS_FOR_NODE == 8

\* the depth at which rollout returns 0.5 without a game; AI_logic calls
\* rollout(depth=0) only, below it
MAX_ROLLOUT_DEPTH == 5

\* MCTSPlayer(simulations=4, game_manager): the default, which init_players uses
simulations == 4

\* the index of no node (parent of the root, node of a pruned move)
NoNode == 0

\* the move of the root
NoMoveOf == <<>>

\* MCTSNode(board_tiles, player_tiles, game_manager, parent, move): the lists
\* are copied.  value counts half points: the rewards are 0, 0.5 and whole
\* numbers.
MCTSNode(board, player_tiles, parent, move) ==
    [board_tiles |-> board, player_tiles |-> player_tiles,
     parent |-> parent, move |-> move,
     children |-> <<>>, visits |-> 0, value |-> 0,
     untried_moves |-> get_all_moves(board, player_tiles)]

is_fully_expanded(node) == node.untried_moves = <<>>

is_terminal(node) == node.player_tiles = <<>> \/ node.untried_moves = <<>>

prune_move(new_player_tiles) ==
    Len(get_potential_groups(new_player_tiles))
        + Len(get_potential_runs(new_player_tiles)) < 2

\* expand on node n of the tree ns: the tree after it and the node returned
\* (NoNode for None).  The move is popped from untried_moves before it is
\* pruned.
expand(ns, n) ==
    IF ns[n].untried_moves = <<>> THEN [nodes |-> ns, node |-> NoNode]
    ELSE LET untried == ns[n].untried_moves
             move == untried[Len(untried)]
             popped == [ns EXCEPT ![n].untried_moves = SubSeq(untried, 1, Len(untried) - 1)]
             child == Len(ns) + 1
         IN  IF prune_move(move[2]) THEN [nodes |-> popped, node |-> NoNode]
             ELSE [nodes |-> Append([popped EXCEPT ![n].children = Append(@, child)],
                                    MCTSNode(move[1], move[2], n, move)),
                   node |-> child]

\* the exploration factor best_child uses, in tenths: 0.5 for a hand of at
\* most 3 tiles, 2.0 for one of at least 10, else the one it is handed
exploration_factor_of(node, exploration_factor) ==
    IF Len(node.player_tiles) <= 3 THEN 5
    ELSE IF Len(node.player_tiles) >= 10 THEN 20
    ELSE exploration_factor

\* best_child that returns the first child, whatever the scores
MutBestChildFirst(ns, n, exploration_factor) ==
    IF ns[n].children = <<>> THEN {} ELSE {ns[n].children[1]}

\* best_child of node n: the children max() can return; none when it raises
\* (no child, a child or the node without a visit).  With the same visits in
\* every child the score orders the children by value, and with the factor 0
\* by value / visits; max() returns the first of the best.  Otherwise every
\* child is considered.
best_child(ns, n, exploration_factor) ==
    LET kids == ns[n].children
        f == exploration_factor_of(ns[n], exploration_factor)
        Better(a, b) == ns[a].value * ns[b].visits > ns[b].value * ns[a].visits
        best == {i \in DOMAIN kids :
                    /\ \A j \in DOMAIN kids : ~Better(kids[j], kids[i])
                    /\ \A j \in 1..(i - 1) : Better(kids[i], kids[j])}
    IN  IF kids = <<>> \/ ns[n].visits = 0 \/ \E i \in DOMAIN kids : ns[kids[i]].visits = 0
        THEN {}
        ELSE IF f = 0 \/ \A i \in DOMAIN kids : ns[kids[i]].visits = ns[kids[1]].visits
        THEN {kids[i] : i \in best}
        ELSE Range(kids)

\* the selection loop of AI_logic from node n:
\* while not node.is_terminal() and node.is_fully_expanded()
RECURSIVE selection(_, _)
selection(ns, n) ==
    IF ~is_terminal(ns[n]) /\ is_fully_expanded(ns[n])
    THEN UNION {selection(ns, c) : c \in best_child(ns, n, 14)}
    ELSE {n}

\* backpropagate without the call on the parent
MutBackpropagateSelfOnly(ns, n, num_wins, num_simulations) ==
    [ns EXCEPT ![n].visits = @ + num_simulations, ![n].value = @ + num_wins]

\* backpropagate that adds the wins and leaves the visits as they are
RECURSIVE MutBackpropagateNoVisits(_, _, _, _)
MutBackpropagateNoVisits(ns, n, num_wins, num_simulations) ==
    LET own == [ns EXCEPT ![n].value = @ + num_wins]
    IN  IF ns[n].parent # NoNode
        THEN MutBackpropagateNoVisits(own, ns[n].parent, num_wins, num_simulations)
        ELSE own

RECURSIVE backpropagate(_, _, _, _)
backpropagate(ns, n, num_wins, num_simulations) ==
    LET own == [ns EXCEPT ![n].visits = @ + num_simulations, ![n].value = @ + num_wins]
    IN  IF ns[n].parent # NoNode
        THEN backpropagate(own, ns[n].parent, num_wins, num_simulations)
        ELSE own

-----------------------------------------------------------------------------
(* RummikubGameManager: the winner of a game *)

check_winner(hands) ==
    [i \in 0..1 |->
        SumSeq([k \in DOMAIN hands[i] |->
                   IF hands[i][k][1] = "joker" THEN 30 ELSE hands[i][k][2]])]

\* -1 for equal points, else the index of the fewest points
get_winner(hands) ==
    LET players_points == check_winner(hands)
    IN  IF players_points[0] = players_points[1] THEN -1
        ELSE IF players_points[0] < players_points[1] THEN 0 ELSE 1

-----------------------------------------------------------------------------
(* Games with an MCTS player: SpecMCTS *)

AllKinds == {"random", "greedy", "mcts"}

\* the state after RummikubGameManager(None, None, inputs), as InitGameFull,
\* each player of any of the three strategies
InitGameMCTS ==
    \E stride \in EndStrides, cut \in 0..MaxCut, p0 \in AllKinds, p1 \in AllKinds :
        LET pool == end_shuffled(stride, cut)
        IN  /\ tile_pool = SubSeq(pool, 1, EndDeckSize - 2 * DealSize)
            /\ players_tiles =
                 [i \in 0..1 |->
                    IF i = 0 THEN draw_n(pool, DealSize)
                    ELSE draw_n(SubSeq(pool, 1, EndDeckSize - DealSize), DealSize)]
            /\ is_done = [i \in 0..1 |-> FALSE]
            /\ board_tiles = <<>>
            /\ current_player_idx = 0
            /\ game_over = FALSE
            /\ players = [i \in 0..1 |-> IF i = 0 THEN p0 ELSE p1]
            /\ has_made_initial_meld = [i \in 0..1 |-> FALSE]
            /\ turns = 0
            /\ last = NoTurn

InitMCTS == InitGameMCTS /\ InitValIdle /\ InitSearchIdle

\* play_turn of the current player reaches MCTSPlayer.AI_logic
CallsSearch ==
    /\ players[current_player_idx] = "mcts"
    /\ has_made_initial_meld[current_player_idx]
    /\ players_tiles[current_player_idx] # <<>>

\* one iteration of the loop of ai_VS_ai whose play_turn does not reach
\* MCTSPlayer.AI_logic
LoopTurn ==
    /\ search.pc = "loop"
    /\ ~game_over
    /\ ~CallsSearch
    /\ \E r \in play_turn(players[current_player_idx],
                          has_made_initial_meld[current_player_idx],
                          board_tiles, players_tiles[current_player_idx]) :
          TurnWith(r)
    /\ UNCHANGED valVars
    /\ UNCHANGED mctsVars

\* the fields of the game manager that a rollout works on
game_state ==
    [tile_pool |-> tile_pool, players_tiles |-> players_tiles,
     board_tiles |-> board_tiles, current_player_idx |-> current_player_idx,
     players |-> players, game_over |-> game_over]

\* self.root_node of the MCTSPlayer of the current seat (NoNode for None):
\* the node that the last search of that player has left, the tree of that
\* search being the one in nodes.  A player that a rollout has replaced is
\* never called again.
root_node ==
    IF search.pc = "loop" /\ "root_node" \in DOMAIN search
          /\ search.player = current_player_idx
    THEN search.root_node
    ELSE NoNode

update_root_node(board, player_tiles) ==
    MCTSNode(board, player_tiles, NoNode, NoMoveOf)

\* the first lines of AI_logic(board, player_tiles) of a player whose
\* self.root_node is node root of the tree ns: the root of the search, built
\* by MCTSNode or by update_root_node
first_root(ns, root, board, player_tiles) ==
    IF root = NoNode \/ ns[root].player_tiles # player_tiles
    THEN MCTSNode(board, player_tiles, NoNode, NoMoveOf)
    ELSE update_root_node(board, player_tiles)

\* play_turn calls get_move, which calls AI_logic: the root node of the
\* search is built
MctsBegin ==
    /\ search.pc = "loop"
    /\ ~game_over
    /\ CallsSearch
    /\ nodes' = <<first_root(nodes, root_node, board_tiles,
                             players_tiles[current_player_idx])>>
    /\ search' = [pc |-> "simulate", sims |-> 0, rollouts |-> 0,
                  player |-> current_player_idx]
    /\ UNCHANGED gameVars
    /\ UNCHANGED valVars

\* Simulator(board_tiles, player_tiles, game_manager): prepare_simulator works
\* on the game manager itself
prepare_simulator(sim_board_tiles, sim_player_tiles) ==
    /\ board_tiles' = sim_board_tiles
    /\ players_tiles' = [players_tiles EXCEPT ![current_player_idx] = sim_player_tiles]
    /\ current_player_idx' = (current_player_idx + 1) % 2
    \* init_players(['greedy', 'random'])
    /\ players' = [i \in 0..1 |-> IF i = 0 THEN "greedy" ELSE "random"]
    /\ has_made_initial_meld' = [i \in 0..1 |-> TRUE]
    /\ UNCHANGED <<tile_pool, is_done, game_over, turns, last>>

\* where the search stands when the rollout of a node starts
rollout_record(node) ==
    [pc |-> "rollout", sims |-> search.sims, rollouts |-> search.rollouts,
     player |-> search.player, node |-> node, started |-> turns,
     original_player_idx |-> (current_player_idx + 1) % 2,
     before |-> game_state]

\* one pass of "for _ in range(self.simulations)" up to the first game of the
\* rollout: selection, expansion, and the Simulator of node.rollout.  The
\* Simulator reads original_player_idx after prepare_simulator has passed the
\* turn.
MctsSimulate ==
    /\ search.pc = "simulate"
    /\ search.sims < simulations
    /\ \E leaf \in selection(nodes, 1) :
          LET expanded == ~is_terminal(nodes[leaf])
              e == expand(nodes, leaf)
              ns == IF expanded THEN e.nodes ELSE nodes
              node == IF expanded THEN e.node ELSE leaf
          IN  /\ nodes' = ns
              /\ IF node # NoNode
                 THEN /\ prepare_simulator(ns[node].board_tiles, ns[node].player_tiles)
                      /\ search' = rollout_record(node)
                 ELSE /\ search' = [search EXCEPT !.sims = @ + 1]
                      /\ UNCHANGED gameVars
    /\ UNCHANGED valVars

\* one iteration of the loop of ai_VS_ai called by Simulator.get_winner
RolloutTurn ==
    /\ search.pc = "rollout"
    /\ ~game_over
    /\ \E r \in play_turn(players[current_player_idx],
                          has_made_initial_meld[current_player_idx],
                          board_tiles, players_tiles[current_player_idx]) :
          TurnWith(r)
    /\ UNCHANGED valVars
    /\ UNCHANGED mctsVars

\* the reward of Simulator.get_winner, in half points
reward(hands, original_player_idx) ==
    LET winner == get_winner(hands)
    IN  IF winner = original_player_idx
        THEN 2 * (1 + SumSeq(numbers_of(hands[winner])))
        ELSE IF winner = (original_player_idx + 1) % 2 THEN 0
        ELSE 1

\* the game is over: the first call of ai_VS_ai in run_simulations has played
\* it to its end, and each of the NUM_SIMULATIONS_FOR_NODE calls returns on
\* the same hands, which get_winner scores each time; the rollout returns and
\* AI_logic backpropagates
RolloutScore ==
    /\ search.pc = "rollout"
    /\ game_over
    /\ LET wins == NUM_SIMULATIONS_FOR_NODE
                        * reward(players_tiles, search.original_player_idx)
       IN  /\ nodes' = backpropagate(nodes, search.node, wins,
                                     NUM_SIMULATIONS_FOR_NODE)
           /\ search' = [pc |-> "simulate", sims |-> search.sims + 1,
                         rollouts |-> search.rollouts + 1,
                         player |-> search.player,
                         before |-> search.before]
    /\ UNCHANGED gameVars
    /\ UNCHANGED valVars

\* the outcome of play_turn when AI_logic returns the move of child c
\* (NoNode: None), with the lists of the game manager as they are now
search_outcome(c) ==
    [found |-> c # NoNode,
     move_board |-> IF c # NoNode THEN nodes[c].move[1] ELSE <<>>,
     move_hand |-> IF c # NoNode THEN nodes[c].move[2] ELSE <<>>,
     board_ip |-> board_tiles,
     hand_ip |-> players_tiles[current_player_idx],
     flag |-> has_made_initial_meld[current_player_idx]]

\* where the search stands when AI_logic has returned: self.root_node is
\* node c of the tree
returned_record(c) ==
    [pc |-> "loop", player |-> search.player, root_node |-> c]

\* the simulations are done: AI_logic returns the move of the best child,
\* which becomes self.root_node, or None when the root has no child, and the
\* iteration of the loop of ai_VS_ai that called play_turn goes on
MctsSelectMove ==
    /\ search.pc = "simulate"
    /\ search.sims = simulations
    /\ IF nodes[1].children # <<>>
       THEN \E c \in best_child(nodes, 1, 0) :
               /\ TurnWith(search_outcome(c))
               /\ search' = returned_record(c)
       ELSE /\ TurnWith(search_outcome(NoNode))
            /\ search' = returned_record(1)
    /\ UNCHANGED nodes
    /\ UNCHANGED valVars

NextMCTS ==
    \/ LoopTurn
    \/ MctsBegin
    \/ MctsSimulate
    \/ RolloutTurn
    \/ RolloutScore
    \/ MctsSelectMove

\* the loop "while not self.game_over" goes on while the game is not over,
\* in ai_VS_ai and in the games of a rollout: one more iteration is counted
TurnGoesOn ==
    /\ ~game_over
    /\ search.pc = "rollout" \/ (search.pc = "loop" /\ ~CallsSearch)
    /\ turns' = turns + 1

\* the search goes on: AI_logic is called, makes its next pass or returns,
\* and a finished game of a rollout is scored; what each step leaves in
\* search, with each guard as in the action it stands for
SearchGoesOn ==
    \/ /\ search.pc = "loop"
       /\ ~game_over
       /\ CallsSearch
       /\ search' = [pc |-> "simulate", sims |-> 0, rollouts |-> 0,
                     player |-> current_player_idx]
    \/ /\ search.pc = "simulate"
       /\ search.sims < simulations
       /\ search' \in {[search EXCEPT !.sims = @ + 1]}
                        \cup {rollout_record(n) : n \in 1..(Len(nodes) + 1)}
    \/ /\ search.pc = "simulate"
       /\ search.sims = simulations
       /\ search' \in {returned_record(c) : c \in DOMAIN nodes}
    \/ /\ search.pc = "rollout"
       /\ game_over
       /\ search' = [pc |-> "simulate", sims |-> search.sims + 1,
                     rollouts |-> search.rollouts + 1,
                     player |-> search.player, before |-> search.before]

\* the program is sequential: the loop and the search take their next step
SpecMCTS ==
    /\ InitMCTS
    /\ [][NextMCTS]_vars
    /\ WF_turns(TurnGoesOn)
    /\ WF_search(SearchGoesOn)

-----------------------------------------------------------------------------
(* The final selection of a search: SpecBest *)

\* a child of the root that expand has made for the move that places the
\* tile at position k of the hand on the board, after its one rollout, which
\* has scored wins
child_after_rollout(hand, k, wins) ==
    LET left == SubSeq(hand, 1, k - 1) \o SubSeq(hand, k + 1, Len(hand))
    IN  [board_tiles |-> <<<<hand[k]>>>>, player_tiles |-> left,
         parent |-> 1, move |-> <<<<<<hand[k]>>>>, left>>,
         children |-> <<>>, visits |-> NUM_SIMULATIONS_FOR_NODE, value |-> wins,
         untried_moves |-> <<>>]

\* the tree at the end of the passes of AI_logic: every move of the root
\* tried, a child for each move that was not pruned, each child rolled out in
\* the pass that made it and never again
tree_after_passes(hand, wins) ==
    <<[board_tiles |-> <<>>, player_tiles |-> hand,
       parent |-> NoNode, move |-> NoMoveOf,
       children |-> [k \in DOMAIN wins |-> k + 1],
       visits |-> NUM_SIMULATIONS_FOR_NODE * Len(wins), value |-> SumSeq(wins),
       untried_moves |-> <<>>]>>
      \o [k \in DOMAIN wins |-> child_after_rollout(hand, k, wins[k])]

\* AI_logic of the MCTS player of seat 0 has made its passes on a hand of the
\* first tiles of the deck; the rollouts have left the game over
InitBest ==
    /\ \E n \in LoBestHand..HiBestHand :
       \E k \in 1..MaxKids :
       \E rewards \in [1..k -> 0..MaxReward] :
          LET hand == SubSeq(create_tile_pool_unshuffled, 1, n)
          IN  /\ nodes = tree_after_passes(hand,
                     [i \in 1..k |-> NUM_SIMULATIONS_FOR_NODE * rewards[i]])
              /\ search = [pc |-> "simulate", sims |-> simulations,
                           rollouts |-> k, player |-> 0]
              /\ players_tiles = [i \in 0..1 |-> IF i = 0 THEN hand ELSE <<>>]
    /\ tile_pool = <<>>
    /\ is_done = [i \in 0..1 |-> TRUE]
    /\ board_tiles = <<>>
    /\ current_player_idx = 0
    /\ game_over = TRUE
    /\ players = [i \in 0..1 |-> IF i = 0 THEN "greedy" ELSE "random"]
    /\ has_made_initial_meld = [i \in 0..1 |-> TRUE]
    /\ turns = 0
    /\ last = NoTurn
    /\ InitValIdle

NextBest == MctsSelectMove

SpecBest == InitBest /\ [][NextBest]_vars

-----------------------------------------------------------------------------
(* A second call of AI_logic on the same MCTS player: SpecReuse *)

\* the hands that the second call is handed: the hand of the node that the
\* first call has kept as self.root_node, and that hand less its first tile
hands_of_second_call ==
    LET kept == nodes[search.root_node].player_tiles
    IN  {kept} \cup (IF kept = <<>> THEN {} ELSE {Tail(kept)})

\* AI_logic(board_tiles, player_tiles) is called again on the MCTSPlayer
\* whose call has returned, with the board as it is now: the root of the
\* search is built, and the passes follow
AILogicAgain ==
    /\ search.pc = "loop"
    /\ "root_node" \in DOMAIN search
    /\ turns <= MaxAgain
    /\ \E player_tiles \in hands_of_second_call :
          nodes' = <<first_root(nodes, search.root_node, board_tiles, player_tiles)>>
    /\ search' = [pc |-> "simulate", sims |-> 0, rollouts |-> 0,
                  player |-> search.player]
    /\ UNCHANGED gameVars
    /\ UNCHANGED valVars

NextReuse ==
    \/ MctsSelectMove
    \/ AILogicAgain
    \/ MctsSimulate
    \/ RolloutScore

SpecReuse == InitBest /\ [][NextReuse]_vars

-----------------------------------------------------------------------------
(* A call of the validators: SpecValid, SpecPerm *)

\* the lists of n tiles of the deck's kinds
TileLists(n) == [1..n -> DeckKinds]

\* the list with the tiles at positions i and i+1 exchanged (i = 0: unchanged)
SwapAt(s, i) ==
    IF i = 0 THEN s
    ELSE [k \in DOMAIN s |-> IF k = i THEN s[i + 1] ELSE IF k = i + 1 THEN s[i] ELSE s[k]]

InitGameIdle ==
    /\ tile_pool = <<>>
    /\ players_tiles = [i \in 0..1 |-> <<>>]
    /\ is_done = [i \in 0..1 |-> FALSE]
    /\ board_tiles = <<>>
    /\ current_player_idx = 0
    /\ game_over = FALSE
    /\ players = [i \in 0..1 |-> "greedy"]
    /\ has_made_initial_meld = [i \in 0..1 |-> FALSE]
    /\ turns = 0
    /\ last = NoTurn
    /\ InitSearchIdle

InitValid ==
    /\ InitGameIdle
    /\ \E n \in 0..MaxLenV : vtiles \in TileLists(n)
    /\ vperm = <<>>
    /\ vres = NoCall

\* is_valid_run(vtiles) and is_valid_group(vtiles)
Validate ==
    /\ ~vres.called
    /\ vres' = [called |-> TRUE,
                run    |-> is_valid_run_outcome(vtiles),
                group  |-> is_valid_group_outcome(vtiles),
                prun   |-> "",
                pgroup |-> ""]
    /\ UNCHANGED <<vtiles, vperm>>
    /\ UNCHANGED gameVars
    /\ UNCHANGED mctsVars

NextValid == Validate

SpecValid == InitValid /\ [][NextValid]_vars

InitPerm ==
    /\ InitGameIdle
    /\ \E n \in 0..MaxLenP : vtiles \in TileLists(n)
    /\ vperm = <<>>
    /\ vres = NoCall

\* the validators on a list and on the list with two neighbours exchanged;
\* the exchanges of neighbours generate every permutation
ValidateBoth ==
    /\ ~vres.called
    /\ \E i \in {0} \cup 1..(Len(vtiles) - 1) :
          /\ vperm' = SwapAt(vtiles, i)
          /\ vres' = [called |-> TRUE,
                      run    |-> is_valid_run_outcome(vtiles),
                      group  |-> is_valid_group_outcome(vtiles),
                      prun   |-> is_valid_run_outcome(SwapAt(vtiles, i)),
                      pgroup |-> is_valid_group_outcome(SwapAt(vtiles, i))]
    /\ UNCHANGED <<vtiles>>
    /\ UNCHANGED gameVars
    /\ UNCHANGED mctsVars

NextPerm == ValidateBoth

SpecPerm == InitPerm /\ [][NextPerm]_vars

-----------------------------------------------------------------------------
(* A call of determine_joker_value: SpecJoker *)

\* no call of determine_joker_value seen yet
NoValue == [called |-> FALSE]

\* what determine_joker_value(tiles) does: the value returned, or the
\* IndexError raised, and the list after the call (the function sorts a list
\* of its own, never the one it is handed)
joker_value_outcome(tiles) ==
    [raises |-> determine_joker_value_raises(tiles),
     value  |-> IF determine_joker_value_raises(tiles) THEN 0
                ELSE determine_joker_value(tiles),
     after  |-> tiles]

InitJoker ==
    /\ InitGameIdle
    /\ \E n \in 1..MaxLenJ : vtiles \in TileLists(n)
    /\ vperm = <<>>
    /\ vres = NoValue

\* determine_joker_value(vtiles) twice, and once on another meld that holds
\* the same non-joker tiles in the same order
Valuate ==
    /\ ~vres.called
    /\ \E n \in 1..MaxLenJ :
         \E other \in TileLists(n) :
            /\ SelectSeq(other, LAMBDA t : ~t[3]) = SelectSeq(vtiles, LAMBDA t : ~t[3])
            /\ vperm' = other
            /\ vres' = [called |-> TRUE,
                        first  |-> joker_value_outcome(vtiles),
                        again  |-> joker_value_outcome(joker_value_outcome(vtiles).after),
                        other  |-> joker_value_outcome(other)]
    /\ UNCHANGED <<vtiles>>
    /\ UNCHANGED gameVars
    /\ UNCHANGED mctsVars

NextJoker == Valuate

SpecJoker == InitJoker /\ [][NextJoker]_vars

-----------------------------------------------------------------------------
(* A call of get_move on the move of an AI_logic: SpecMove *)

\* no call of get_move seen yet
NoGetMove == [called |-> FALSE]

\* the boards handed to get_move: the empty one and one meld
boards_of_get_move ==
    {<<>>, <<<<Tile("red", LoValue), Tile("red", LoValue + 1),
               Tile("red", LoValue + 2)>>>>}

\* the moves AI_logic can return on a board and a hand: nothing, the list of
\* one tile of the deck, and the tuple of the board with one more meld, of
\* one tile of the deck, and the hand without that tile
moves_of_AI_logic(board, player_tiles) ==
    {EmptyMove}
      \cup {ListMove(t) : t \in DeckKinds}
      \cup {TupleMove(Append(board, <<t>>), without_tile(player_tiles, t)) :
               t \in DeckKinds}

\* players[0] holds a hand of the deck's tiles and its AI_logic returns vperm
InitMove ==
    /\ tile_pool = <<>>
    /\ \E n \in 1..MaxLenM : \E hand \in TileLists(n) :
          /\ DrawnFromDeck(hand)
          /\ players_tiles = [i \in 0..1 |-> IF i = 0 THEN hand ELSE <<>>]
          /\ vtiles = hand
    /\ is_done = [i \in 0..1 |-> FALSE]
    /\ board_tiles \in boards_of_get_move
    /\ current_player_idx = 0
    /\ game_over = FALSE
    /\ players = [i \in 0..1 |-> "greedy"]
    /\ has_made_initial_meld = [i \in 0..1 |-> TRUE]
    /\ turns = 0
    /\ last = NoTurn
    /\ vperm \in moves_of_AI_logic(board_tiles, players_tiles[0])
    /\ vres = NoGetMove
    /\ InitSearchIdle

\* players[0].get_move(board_tiles, players_tiles[0]): the two lists are the
\* lists of the game manager, which the call works on
GetMove ==
    /\ ~vres.called
    /\ LET r == get_move_with(vperm, board_tiles, players_tiles[0])
       IN  /\ vres' = [called |-> TRUE, board0 |-> board_tiles,
                       raises |-> r.raises, success |-> r.success,
                       board |-> r.board, hand |-> r.hand]
           /\ board_tiles' = r.board_ip
           /\ players_tiles' = [players_tiles EXCEPT ![0] = r.hand_ip]
    /\ UNCHANGED <<vtiles, vperm>>
    /\ UNCHANGED <<tile_pool, is_done, current_player_idx, game_over, players,
                   has_made_initial_meld, turns, last>>
    /\ UNCHANGED mctsVars

NextMove == GetMove

SpecMove == InitMove /\ [][NextMove]_vars

-----------------------------------------------------------------------------
(* A call of play_turn on a dealt hand: SpecHand *)

\* the kinds of tile of the deck, in the order create_tile_pool lists them
DeckOrder == Dedup(create_tile_pool_unshuffled)

KindIndex(t) == CHOOSE j \in DOMAIN DeckOrder : DeckOrder[j] = t

\* melds already on the board when the hand is played
SampleRun ==
    <<Tile("blue", LoValue), Tile("blue", LoValue + 1), Tile("blue", LoValue + 2)>>
SampleGroup ==
    <<Tile("green", HiValue), Tile("yellow", HiValue), Tile("red", HiValue)>>
SampleBoards == {<<>>, <<SampleRun, SampleGroup>>}

\* player 0 is about to be dealt a hand; the board holds melds of the other
\* player and the pool the rest of the deck.  Before the initial meld
\* play_turn does not call AI_logic, so one kind of player stands for all.
InitHand ==
    /\ \E b \in SampleBoards :
          /\ board_tiles = b
          /\ tile_pool = RemoveAll(create_tile_pool_unshuffled, Flatten(b))
    /\ players_tiles = [i \in 0..1 |-> <<>>]
    /\ is_done = [i \in 0..1 |-> FALSE]
    /\ current_player_idx = 0
    /\ game_over = FALSE
    /\ \E k \in PlayerKinds, f \in BOOLEAN :
          /\ f \/ k = "greedy"
          /\ players = [i \in 0..1 |-> k]
          /\ has_made_initial_meld = [i \in 0..1 |-> f]
    /\ turns = 0
    /\ last = NoTurn
    /\ InitValIdle
    /\ InitSearchIdle

\* draw_tile for player 0.  The pool is shuffled, so any of its tiles may be
\* the one drawn; hands are taken up to the order of the draws (the tiles come
\* in the deck's order).
DealTile ==
    /\ last = NoTurn
    /\ Len(players_tiles[0]) <
          (IF has_made_initial_meld[0] THEN MaxPlayLen ELSE MaxHandLen)
    /\ \E t \in Range(tile_pool) :
          /\ players_tiles[0] # <<>> =>
                KindIndex(t) >= KindIndex(players_tiles[0][Len(players_tiles[0])])
          /\ tile_pool' = RemoveFirst(tile_pool, t)
          /\ players_tiles' = [players_tiles EXCEPT ![0] = Append(@, t)]
    /\ UNCHANGED <<is_done, board_tiles, current_player_idx, game_over, players,
                   has_made_initial_meld, turns, last>>
    /\ UNCHANGED valVars
    /\ UNCHANGED mctsVars

\* player.play_turn(board_tiles, players_tiles[0]) alone: the call works on
\* the manager's own lists
PlayTurn ==
    /\ last = NoTurn
    /\ \E r \in play_turn(players[0], has_made_initial_meld[0],
                          board_tiles, players_tiles[0]) :
          /\ last' = TurnRecord(0, r, "call")
          /\ board_tiles' = r.board_ip
          /\ players_tiles' = [players_tiles EXCEPT ![0] = r.hand_ip]
          /\ has_made_initial_meld' = [has_made_initial_meld EXCEPT ![0] = r.flag]
    /\ UNCHANGED <<tile_pool, is_done, current_player_idx, game_over, players, turns>>
    /\ UNCHANGED valVars
    /\ UNCHANGED mctsVars

NextHand == DealTile \/ PlayTurn

SpecHand == InitHand /\ [][NextHand]_vars

-----------------------------------------------------------------------------
(* The rules of the game, as the claims state them *)

Jokers(tiles)    == SelectSeq(tiles, LAMBDA t : t[3])
NonJokers(tiles) == SelectSeq(tiles, LAMBDA t : ~t[3])

\* a run: at least 3 tiles, one color among the non-jokers, and the listed
\* tiles are v, v+1, v+2, ... for some v, a joker standing for any one value
RuleRun(tiles) ==
    /\ Len(tiles) >= 3
    /\ Cardinality({t[1] : t \in Range(NonJokers(tiles))}) <= 1
    /\ \E v \in 1..(13 - Len(tiles) + 1) :
          \A i \in DOMAIN tiles : tiles[i][3] \/ tiles[i][2] = v + i - 1

\* a group: 3 or 4 tiles, one value among the non-jokers, and as many
\* distinct non-joker colors plus jokers as tiles
RuleGroup(tiles) ==
    /\ Len(tiles) >= 3
    /\ Len(tiles) <= 4
    /\ Cardinality({t[2] : t \in Range(NonJokers(tiles))}) = 1
    /\ Cardinality({t[1] : t \in Range(NonJokers(tiles))}) + Len(Jokers(tiles))
          = Len(tiles)

-----------------------------------------------------------------------------
(* Claims about the validators *)

\* C3: for every list of tiles drawn from the deck, is_valid_run returns true
\* if and only if the list has at least 3 tiles, one color among its
\* non-jokers, and its values with the jokers filling the gaps are consecutive
\* and ascending.
C3_RunIffRule ==
    (vres.called /\ DrawnFromDeck(vtiles))
        => ((vres.run = "True") <=> RuleRun(vtiles))

\* C4: for every list of tiles drawn from the deck, is_valid_group returns
\* true if and only if the list has 3 or 4 tiles, one value among its
\* non-jokers, and distinct non-joker colors plus jokers equal to its length.
C4_GroupIffRule ==
    (vres.called /\ DrawnFromDeck(vtiles))
        => ((vres.group = "True") <=> RuleGroup(vtiles))

C6_OrderInsensitive ==
    vres.called => (vres.prun = vres.run /\ vres.pgroup = vres.group)

-----------------------------------------------------------------------------
(* Claims about the game loop *)

TilesInPlay ==
    Len(tile_pool) + Len(players_tiles[0]) + Len(players_tiles[1])
        + Len(Flatten(board_tiles))

\* C1: tile conservation: after every turn of ai_VS_ai the tiles of the pool,
\* of both hands and of all board melds are as many as the deck holds (106 in
\* the program, DeckSize here).
C1_TileConservation == TilesInPlay = DeckSize

-----------------------------------------------------------------------------
(* Claims about the initial meld and the moves *)

\* the sets of positions of a hand whose tiles, by ascending value, form a
\* valid meld, each with its points
MeldsOf(hand) ==
    {<<S, calculate_points(sample_tiles(hand, S))>> :
        S \in {X \in SUBSET DOMAIN hand :
                 Cardinality(X) >= 3 /\ is_valid_meld(sample_tiles(hand, X))}}

\* the most points that pairwise disjoint melds among the positions avail
\* are worth
RECURSIVE BestPacking(_, _)
BestPacking(melds, avail) ==
    LET totals == {m[2] + BestPacking(melds, avail \ m[1]) :
                      m \in {x \in melds : x[1] \subseteq avail}}
    IN  IF totals = {} THEN 0
        ELSE CHOOSE v \in totals : \A w \in totals : v >= w

Worth(hand) == BestPacking(MeldsOf(hand), DOMAIN hand)

PointsOf(melds) == SumSeq([i \in DOMAIN melds |-> calculate_points(melds[i])])

\* C7: the initial-meld gate, lower side: a hand whose disjoint valid melds
\* are worth at most 29 points gets None from find_tiles_for_30_points and from
\* play_turn, and its flag stays false; and the melds returned when the check
\* passes are valid melds of hand tiles, pairwise disjoint, worth 30 or more.
C7_GateLowerSide ==
    (last # NoTurn /\ ~last.flag0) =>
        LET melds == find_tiles_for_30_points(last.hand0)
        IN  /\ \/ (melds = <<>> /\ ~last.found /\ ~last.flag1)
               \/ Worth(last.hand0) >= INITIAL_MELD_POINTS
            /\ melds # <<>> =>
                 /\ \A i \in DOMAIN melds :
                       Len(melds[i]) >= 3 /\ is_valid_meld(melds[i])
                 /\ \A i, j \in DOMAIN melds :
                       i # j => Range(melds[i]) \cap Range(melds[j]) = {}
                 /\ BagOf(Flatten(melds)) \sqsubseteq BagOf(last.hand0)
                 /\ PointsOf(melds) >= INITIAL_MELD_POINTS

C7_Witness ==
    /\ last # NoTurn
    /\ ~last.flag0
    /\ ~last.found
    /\ ~has_made_initial_meld[0]
    /\ Len(last.hand0) = MaxHandLen
    /\ Worth(last.hand0) > 0
    /\ Worth(last.hand0) < INITIAL_MELD_POINTS

\* C8: the initial-meld gate, upper side: a hand that holds pairwise disjoint
\* valid melds worth 30 points or more passes the check:
\* find_tiles_for_30_points returns melds and play_turn returns a move.
C8_GateUpperSide ==
    (last # NoTurn /\ ~last.flag0 /\ Worth(last.hand0) >= INITIAL_MELD_POINTS) =>
        (find_tiles_for_30_points(last.hand0) # <<>> /\ last.found)

\* C9: while the flag is false play_turn uses no board-extension move: it
\* returns None and leaves board, hand and flag as they were, or it sets the
\* flag and returns the previous board melds unchanged followed by new melds
\* built only from hand tiles.
C9_NoExtensionBeforeMeld ==
    (last # NoTurn /\ ~last.flag0) =>
        \/ /\ ~last.found
           /\ last.board_ip = last.board0
           /\ last.hand_ip = last.hand0
           /\ ~last.flag1
        \/ /\ last.found
           /\ last.flag1
           /\ Len(last.move_board) > Len(last.board0)
           /\ SubSeq(last.move_board, 1, Len(last.board0)) = last.board0
           /\ BagOf(Flatten(SubSeq(last.move_board, Len(last.board0) + 1,
                                   Len(last.move_board))))
                 \sqsubseteq BagOf(last.hand0)

C9_Witness ==
    /\ last # NoTurn
    /\ ~last.flag0
    /\ last.board0 # <<>>
    /\ last.found
    /\ has_made_initial_meld[0]
    /\ Len(board_tiles) > Len(last.board0)

\* the tiles a move takes from the hand, and the tiles it adds to the board
Removed(hand, new_hand) == BagOf(hand) (-) BagOf(new_hand)
Added(board, new_board) == BagOf(Flatten(new_board)) (-) BagOf(Flatten(board))

\* C10: move balance: for every result of play_turn and every candidate of
\* get_all_moves (which the Greedy player calls once its flag is set), the
\* multiset of tiles removed from the hand equals the multiset of tiles added
\* to the board.
C10_MoveBalance ==
    last # NoTurn =>
        /\ last.found =>
              Removed(last.hand0, last.move_hand)
                 = Added(last.board0, last.move_board)
        /\ (last.flag0 /\ last.kind = "greedy") =>
              LET moves == get_all_moves(last.board0, last.hand0)
              IN  \A m \in DOMAIN moves :
                     Removed(last.hand0, moves[m][2])
                        = Added(last.board0, moves[m][1])

-----------------------------------------------------------------------------
(* Claims about the committed board and the draw *)

\* meld new is meld old, or meld old with tiles of the hand added to it
ExtendsMeld(new, old, hand) ==
    \/ new = old
    \/ /\ Len(new) > Len(old)
       /\ BagOf(old) \sqsubseteq BagOf(new)
       /\ (BagOf(new) (-) BagOf(old)) \sqsubseteq BagOf(hand)

\* C11: a committed move only appends melds or replaces a meld by an
\* extension of it: every meld on the board before the turn is on the board
\* after apply_move, unchanged or with hand tiles added; none is dropped.
C11_MeldsKept ==
    (last # NoTurn /\ last.branch = "apply") =>
        \A i \in DOMAIN last.board0 :
            \E j \in DOMAIN board_tiles :
                ExtendsMeld(board_tiles[j], last.board0[i], last.hand0)

\* the tile on top of a pool
TopOf(pool) == pool[Len(pool)]

\* what the loop has done on a None of play_turn, seen after the iteration
DrawOnNone ==
        /\ board_tiles = last.board0
        /\ players_tiles[1 - last.idx] = last.other0
        /\ has_made_initial_meld[last.idx] = last.flag0
        /\ current_player_idx = 1 - last.idx
        /\ IF last.pool0 # <<>>
           THEN /\ last.branch = "draw"
                /\ tile_pool = SubSeq(last.pool0, 1, Len(last.pool0) - 1)
                /\ BagOf(players_tiles[last.idx])
                      = BagOf(last.hand0) (+) BagOf(<<TopOf(last.pool0)>>)
                /\ ~is_done[last.idx]
           ELSE /\ last.branch = "done"
                /\ tile_pool = <<>>
                /\ BagOf(players_tiles[last.idx]) = BagOf(last.hand0)
                /\ is_done[last.idx]

TurnPossible ==
    IF search.pc = "simulate"
    THEN IF search.sims < simulations THEN selection(nodes, 1) # {}
         ELSE nodes[1].children = <<>> \/ best_child(nodes, 1, 0) # {}
    ELSE \/ game_over
         \/ search.pc = "loop" /\ CallsSearch
         \/ play_turn(players[current_player_idx],
                      has_made_initial_meld[current_player_idx],
                      board_tiles, players_tiles[current_player_idx]) # {}

\* C13: termination: every execution of ai_VS_ai, for any pair of strategies
\* and any shuffle, eventually reaches game_over = true; the loop cannot run
\* forever once the pool is exhausted.
C13_Terminates ==
    /\ []TurnPossible
    /\ <>(game_over /\ search.pc = "loop")

C13_Witness ==
    /\ game_over
    /\ search.pc = "loop"
    /\ tile_pool = <<>>
    /\ nodes # <<>>
    /\ nodes[1].visits > 0
    /\ turns > EndDeckSize - 2 * DealSize + 2

\* C20: win detection: play_turn on an empty hand returns None and changes
\* nothing, and the loop treats it as a win: the game ends and no tile is
\* drawn into that hand.
C20_EmptyHandWins ==
    (last # NoTurn /\ last.hand0 = <<>>) =>
        /\ ~last.found
        /\ last.board_ip = last.board0
        /\ last.hand_ip = <<>>
        /\ players_tiles[last.idx] = <<>>
        /\ tile_pool = last.pool0
        /\ game_over

-----------------------------------------------------------------------------
(* Claims about the Greedy selection and the joker value *)

ValueSum(group) == SumSeq([i \in DOMAIN group |-> group[i][2]])

\* (length, value sum) of a is at least that of b, the length compared first
LexAtLeast(a, b) ==
    \/ Len(a) > Len(b)
    \/ (Len(a) = Len(b) /\ ValueSum(a) >= ValueSum(b))

\* the melds of all candidates
MeldsOfMoves(moves) == UNION {Range(moves[m][1]) : m \in DOMAIN moves}

ExampleRun ==
    <<Tile("red", 5), Tile("red", 6), Tile("red", 7), Tile("red", 8)>>
ExampleHand == ExampleRun \o <<Tile("blue", 5), Tile("green", 5)>>

C15_JokerValuePure ==
    (vres.called /\ Jokers(vtiles) # <<>> /\ Jokers(vperm) # <<>>
        /\ NonJokers(vtiles) # <<>>
        /\ DrawnFromDeck(vtiles) /\ DrawnFromDeck(vperm)) =>
        /\ vres.again = vres.first
        /\ vres.first.after = vtiles
        /\ vres.other.raises = vres.first.raises
        /\ vres.other.value = vres.first.value

\* the value the rule gives the joker of a meld with a numbered tile
RuleJokerValue(meld) ==
    LET values == {t[2] : t \in Range(NonJokers(meld))}
        lo == CHOOSE v \in values : \A w \in values : v <= w
        hi == CHOOSE v \in values : \A w \in values : v >= w
        \* the values below which a gap larger than 1 opens
        gaps == {v \in values : v # hi /\ v + 1 \notin values}
    IN  IF Len(meld) = 1 THEN 0
        ELSE IF Cardinality(values) = 1 THEN lo
        ELSE IF gaps # {} THEN (CHOOSE v \in gaps : \A w \in gaps : v <= w) + 1
        ELSE IF meld[1][3] THEN lo - 1
        ELSE hi + 1

\* C16: determine_joker_value returns 0 for a single-tile meld, the common
\* value when all non-joker values are equal, otherwise the value filling the
\* earliest gap larger than 1 of the sorted non-joker values, and without a gap
\* min-1 when the joker is at the low end and max+1 otherwise; it returns a
\* value for every meld that holds a joker, melds of jokers only included.
C16_JokerValueRule ==
    (vres.called /\ Jokers(vtiles) # <<>> /\ DrawnFromDeck(vtiles)) =>
        /\ ~vres.first.raises
        /\ NonJokers(vtiles) # <<>> => vres.first.value = RuleJokerValue(vtiles)
        /\ Len(vtiles) = 1 => vres.first.value = 0

-----------------------------------------------------------------------------
(* Claims about the MCTS search *)

\* C17: simulation isolation: a rollout works on independent copies: after
\* MCTSNode.rollout (the Simulator built, run_simulations done) the pool, both
\* hands, the board, current_player_idx, the players and game_over of the
\* game manager are what they were before the rollout.
C17_RolloutIsolated ==
    (search.pc = "simulate" /\ search.rollouts > 0) => game_state = search.before

\* C18: at every point of MCTSPlayer.AI_logic the visits of the root are
\* NUM_SIMULATIONS_FOR_NODE times the number of completed rollouts, and the
\* visits of a child are at most those of its parent.
C18_VisitsMonotone ==
    search.pc # "loop" =>
        /\ nodes[1].visits = NUM_SIMULATIONS_FOR_NODE * search.rollouts
        /\ \A n \in DOMAIN nodes :
              nodes[n].parent # NoNode =>
                  nodes[n].visits <= nodes[nodes[n].parent].visits

C18_Witness ==
    /\ search.pc = "simulate"
    /\ search.sims = simulations
    /\ \E n \in DOMAIN nodes :
          /\ nodes[n].parent = 1
          /\ nodes[n].visits = NUM_SIMULATIONS_FOR_NODE
          /\ nodes[1].visits > nodes[n].visits

\* the melds that a turn has put at the end of the board
PlacedIn(turn) ==
    SubSeq(turn.move_board, Len(turn.board0) + 1, Len(turn.move_board))

\* C19: the flag has_made_initial_meld of the player of a seat becomes true
\* only in a turn of that seat that places melds worth INITIAL_MELD_POINTS or
\* more, and it never goes back from true to false during a game.
C19_FlagOnlyByMeld ==
    [][\A i \in 0..1 :
          /\ has_made_initial_meld[i] => has_made_initial_meld'[i]
          /\ (~has_made_initial_meld[i] /\ has_made_initial_meld'[i]) =>
                /\ turns' = turns + 1
                /\ last'.idx = i
                /\ last'.found
                /\ PointsOf(PlacedIn(last')) >= INITIAL_MELD_POINTS]_vars

\* C21: a node is terminal exactly when its hand is empty or it has no
\* untried move and no child; a fully expanded node with children is not
\* terminal, so that the selection loop of AI_logic goes down from it through
\* best_child and does not stop at it.
C21_TerminalCondition ==
    search.pc # "loop" =>
        /\ \A n \in DOMAIN nodes :
              is_terminal(nodes[n]) <=>
                  \/ nodes[n].player_tiles = <<>>
                  \/ nodes[n].untried_moves = <<>> /\ nodes[n].children = <<>>
        /\ \A n \in DOMAIN nodes :
              (is_fully_expanded(nodes[n]) /\ nodes[n].children # <<>>
                 /\ nodes[n].player_tiles # <<>>)
                  => n \notin selection(nodes, n)

C23_RolloutSeats ==
    search.pc = "rollout" =>
        /\ players[search.before.current_player_idx] = "greedy"
        /\ players[(search.before.current_player_idx + 1) % 2] = "random"

\* C24: the reward of a sub-game of a rollout is 1 plus the sum of the values
\* of the tiles left to the winner exactly when the winner is the seat that
\* held the hand of the node when the rollout began, 0 when that seat loses
\* and 0.5 on a tie; run_simulations returns the sum of the rewards of its
\* NUM_SIMULATIONS_FOR_NODE sub-games, which backpropagate adds to the value
\* of the node.
C24_RewardOfNodeSeat ==
    [][(search.pc = "rollout" /\ search'.pc = "simulate")
          => nodes'[search.node].value - nodes[search.node].value
               = NUM_SIMULATIONS_FOR_NODE
                   * reward(players_tiles, search.before.current_player_idx)]_vars

\* C25: each of the NUM_SIMULATIONS_FOR_NODE sub-games of a rollout starts
\* from the board and the hand of the node, and a sub-game stops after at most
\* MAX_ROLLOUT_DEPTH plies (the cut-off is scored 0.5).
C25_RolloutDepth ==
    search.pc = "rollout" =>
        LET seat == search.before.current_player_idx
            node == nodes[search.node]
        IN  \* the plies of the sub-game played so far
            /\ turns - search.started <= MAX_ROLLOUT_DEPTH
            \* where the first sub-game starts, and where the others do
            /\ (turns = search.started \/ game_over) =>
                  /\ board_tiles = node.board_tiles
                  /\ players_tiles[seat] = node.player_tiles

\* C26: the tree is kept from one call of AI_logic to the next: when the hand
\* handed to AI_logic is the hand of the node that the last call of the same
\* player has kept as self.root_node, the search goes on from that same node,
\* with the visits, the value, the children and the untried moves it has; a
\* new root is built only when the hand is another one.
C26_TreeReuse ==
    [][(/\ search.pc = "loop"
        /\ search'.pc = "simulate"
        /\ "root_node" \in DOMAIN search
        /\ search'.player = search.player
        /\ nodes[search.root_node].player_tiles = nodes'[1].player_tiles)
          => /\ nodes'[1].visits = nodes[search.root_node].visits
             /\ nodes'[1].value = nodes[search.root_node].value
             /\ Len(nodes'[1].children) = Len(nodes[search.root_node].children)
             /\ nodes'[1].untried_moves = nodes[search.root_node].untried_moves]_vars

-----------------------------------------------------------------------------
(* Claims about the board moves and the turn *)

\* the canonical signature of a move: the melds of its board, each as the
\* multiset of its tiles (two melds have the same sorted tuple exactly when
\* they have the same multiset), and the hand it leaves
canonical_signature(move) ==
    <<[g \in DOMAIN move[1] |-> BagOf(move[1][g])], move[2]>>

\* C27: get_all_moves_from_board (which the Greedy player calls through
\* get_all_moves once its flag is set) never returns two candidates with the
\* same canonical signature, whatever the end of the meld at which the tile
\* is put and whichever copy of a tile the hand holds twice is used.
C27_NoDuplicateCandidates ==
    (last # NoTurn /\ last.flag0 /\ last.kind = "greedy") =>
        LET moves == get_all_moves_from_board(last.board0, last.hand0)
        IN  \A i, j \in DOMAIN moves :
               i # j => canonical_signature(moves[i]) # canonical_signature(moves[j])

\* the move that AI_logic has returned puts on the board a tile that the hand
\* handed to get_move does not hold
ReferencesMissingTile ==
    \/ vperm.shape = "list" /\ vperm.tile \notin Range(vtiles)
    \/ /\ vperm.shape = "tuple"
       /\ \E t \in Range(Flatten(vperm.board)) :
             t \notin Range(Flatten(vres.board0)) /\ t \notin Range(vtiles)

\* C28: when the move that AI_logic has chosen refers to a tile that is not in
\* the hand, get_move raises an error, and the board and the hand have not
\* been changed when it does; this for the move that is a list of one meld and
\* for the move that is a (board, hand) tuple.
C28_MissingTileRaises ==
    (vres.called /\ "board0" \in DOMAIN vres /\ ReferencesMissingTile) =>
        /\ vres.raises
        /\ board_tiles = vres.board0
        /\ players_tiles[0] = vtiles

\* C29: in ai_VS_ai a turn applies a move or draws, never both: when the
\* branch that draws a tile or marks the player done is taken, play_turn has
\* left the board as it was and the acting player holds the tiles held at the
\* start of the turn, and the drawn tile if one is drawn; this for every
\* strategy, Random included, and for the initial meld.  (A hand is a multiset
\* of tiles.)
C29_ApplyOrDraw ==
    (last # NoTurn /\ last.branch \in {"draw", "done"}) =>
        /\ board_tiles = last.board0
        /\ BagOf(players_tiles[last.idx])
              = BagOf(last.hand0)
                  (+) (IF last.branch = "draw" THEN BagOf(<<TopOf(last.pool0)>>)
                       ELSE EmptyBag)

\* AI_logic evaluates best_child on node n in the state it is in: in the
\* selection loop of a pass, on a node that is not terminal and is fully
\* expanded, and in the final selection, on a root that has children
EvaluatesBestChild(n) ==
    /\ search.pc = "simulate"
    /\ IF search.sims < simulations
       THEN \E m \in DOMAIN nodes :
               /\ ~is_terminal(nodes[m]) /\ is_fully_expanded(nodes[m])
               /\ n = m
               /\ (m = 1 \/ nodes[m].parent \in DOMAIN nodes)
       ELSE n = 1 /\ nodes[1].children # <<>>

\* C30: whenever best_child is evaluated in AI_logic, the node has more than
\* 0 visits and so has each of its children: the score divides by no zero and
\* takes the logarithm of no zero.
C30_BestChildDefined ==
    \A n \in DOMAIN nodes :
        EvaluatesBestChild(n) =>
            /\ nodes[n].visits > 0
            /\ \A c \in Range(nodes[n].children) : nodes[c].visits > 0

C30_Witness ==
    /\ search.pc = "loop"
    /\ "root_node" \in DOMAIN search
    /\ Len(nodes[1].children) >= 2
    /\ search.root_node \in Range(nodes[1].children)
    /\ nodes[1].visits > NUM_SIMULATIONS_FOR_NODE
    /\ \A c \in Range(nodes[1].children) :
          nodes[c].visits = NUM_SIMULATIONS_FOR_NODE
    /\ last.found
    /\ <<last.move_board, last.move_hand>> = nodes[search.root_node].move
    /\ search.root_node # nodes[1].children[1]

====
